---- MODULE Spec2Model ----
(***************************************************************************)
(* Batch scheduling and result aggregation of DockSuiteX:                  *)
(*   docksuitex/batch_docking/batch_vina.py          BatchVinaDocking      *)
(*   docksuitex/batch_docking/batch_autodock4.py     BatchAD4Docking       *)
(*   docksuitex/batch_docking/batch_pocket_finder.py BatchPocketFinder     *)
(*   docksuitex/batch_docking/batch_protein.py       BatchProtein          *)
(*   docksuitex/batch_docking/batch_ligand.py        BatchLigand           *)
(* A batch object is constructed, run_all / prepare_all computes the CPU   *)
(* split, creates a process pool, submits one future per task, and the     *)
(* driving loop records each outcome as its future resolves.  The "Run     *)
(* Batch Docking" handler of streamlit_app/pages/batch_docking.py calls a  *)
(* docking batch and reports on it.                                        *)
(*                                                                         *)
(* Paths are records [dir, stem, ext]; a center is a tuple of coordinates  *)
(* in thousandths of an Angstrom (1004 is 1.004).                          *)
(***************************************************************************)
EXTENDS Integers, Sequences, FiniteSets, TLC

VARIABLES
    kind,         \* which batch class the object is
    receptors,    \* self.receptors: the dict, as a sequence of [path, centers] in insertion order
    ligands,      \* self.ligands (docking batches)
    files,        \* self.files (pocket finding and preparation batches)
    pc,           \* position of the caller / driving process
    raised,       \* the exception that left the constructor or the batch call ("none" if none)
    cpu,          \* the cpu argument of the batch call
    total_tasks,  \* total_tasks / n_files
    max_workers,  \* size of the process pool (0 while no pool exists)
    cpu_share,    \* vina_cpu / cpu_per_worker handed to every task
    futures,      \* the futures dict, in submission order: [task, cpu, st, res]
    done_order,   \* indices of the futures in the order they resolved
    ncollected,   \* how many futures as_completed has handed to the loop body
    pool,         \* the ProcessPoolExecutor: "none", "running" or "shutdown"
    results,      \* self.results, in insertion order: sequence of [key, val]
    fs,           \* writes to the output tree: set of [path, by] (by = index of the writing task)
    finished,     \* as_completed: the futures that had resolved when it began and are not yet yielded
    handed,       \* indices of the futures in the order as_completed handed them to the loop body
    calls,        \* how many times run_all / prepare_all has been called on the object
    page,         \* the "Run Batch Docking" handler of the Streamlit page: [state, summary, metrics]
    reports,      \* the prediction report P2Rank wrote for each pocket task (by index of the task)
    stage,        \* position of one AD4Docking.run call
    output_dir,   \* self.output_dir of that call: the files in it, each with its lines
    started       \* the programs that call has run, in order: sequence of [prog, code]

vars == <<kind, receptors, ligands, files, pc, raised, cpu, total_tasks, max_workers,
          cpu_share, pool, futures, done_order, ncollected, results, fs,
          finished, handed, calls, page, reports, stage, output_dir, started>>

-----------------------------------------------------------------------------
(* Bounds of the model *)

MaxReceptors == 2
MaxCenters == 2
MaxLigands == 2
MaxFiles == 2
MaxTasks == 2
MaxCpu == 2
MaxAllocCpu == 16
MaxAllocTasks == 20

-----------------------------------------------------------------------------
(* pathlib and string formatting *)

Min(a, b) == IF a <= b THEN a ELSE b
Max(a, b) == IF a >= b THEN a ELSE b

Range(s) == {s[i] : i \in 1..Len(s)}

RECURSIVE SumSeq(_)
SumSeq(s) == IF s = <<>> THEN 0 ELSE Head(s) + SumSeq(Tail(s))

RECURSIVE Join(_, _)
\* sep.join(parts) for a sequence of strings
Join(sep, parts) ==
    IF parts = <<>> THEN ""
    ELSE IF Len(parts) = 1 THEN parts[1]
    ELSE parts[1] \o sep \o Join(sep, Tail(parts))

MkPath(d, s, e) == [dir |-> d, stem |-> s, ext |-> e]

\* Path.name
PathName(p) == p.stem \o p.ext

\* str(path) of a resolved path
PathStr(p) == p.dir \o "/" \o p.stem \o p.ext

\* two digits of a number below 100
TwoDigits(n) == IF n < 10 THEN "0" \o ToString(n) ELSE ToString(n)

\* f"{c:.2f}" of a non-negative coordinate given in thousandths: rounded to
\* the nearest hundredth (ties to even, as the correctly rounded decimal is)
Fmt2f(c) ==
    LET q == c \div 10
        r == c % 10
        h == IF r > 5 \/ (r = 5 /\ q % 2 = 1) THEN q + 1 ELSE q
    IN  ToString(h \div 100) \o "." \o TwoDigits(h % 100)

\* "_".join(f"{c:.2f}" for c in center)
CenterStr(center) == Join("_", [i \in 1..Len(center) |-> Fmt2f(center[i])])

-----------------------------------------------------------------------------
(* The inputs a caller can hand to a batch *)

DockKinds == {"vina", "ad4"}
PrepKinds == {"protein", "ligand"}
FileKinds == {"pocket"} \cup PrepKinds

\* receptor files: two of them have the same file name in different directories
RecPaths == {MkPath("d1", "R1", ".pdbqt"), MkPath("d2", "R1", ".pdbqt")}

LigPaths == {MkPath("d1", "L1", ".pdbqt"), MkPath("d1", "L2", ".pdbqt")}

\* (1.0, 2.0, 3.0) and (1.004, 2.0, 3.0)
Centers == {<<1000, 2000, 3000>>, <<1004, 2000, 3000>>}

\* protein / ligand files to prepare or search, listed in the order of their path strings
FilePathsInOrder == <<MkPath("d1", "P1", ".pdb"), MkPath("d1", "P2", ".pdb"), MkPath("d2", "P1", ".pdb")>>

FilePaths == {FilePathsInOrder[i] : i \in 1..Len(FilePathsInOrder)}

\* p <= q for two paths (Path.__le__)
PathLeq(p, q) ==
    LET ip == CHOOSE i \in 1..Len(FilePathsInOrder) : FilePathsInOrder[i] = p
        iq == CHOOSE i \in 1..Len(FilePathsInOrder) : FilePathsInOrder[i] = q
    IN  ip <= iq

\* inputs of the task builder alone: receptors with different file names and
\* the centers (1, 2, 3), (4, 5, 6), (7, 8, 9)
BuildRecPaths == {MkPath("d1", "R1", ".pdbqt"), MkPath("d1", "R2", ".pdbqt")}

BuildCenters == {<<1000, 2000, 3000>>, <<4000, 5000, 6000>>, <<7000, 8000, 9000>>}

SeqsUpTo(S, n) == UNION {[1..k -> S] : k \in 0..n}

Distinct(s) == \A i, j \in 1..Len(s) : i # j => s[i] # s[j]

\* a dict has one entry per key
ReceptorMaps ==
    {m \in SeqsUpTo([path : RecPaths, centers : SeqsUpTo(Centers, MaxCenters)], MaxReceptors) :
        Distinct([i \in 1..Len(m) |-> m[i].path])}

LigandLists == SeqsUpTo(LigPaths, MaxLigands)

BuildMaps ==
    {m \in SeqsUpTo([path : BuildRecPaths, centers : SeqsUpTo(BuildCenters, MaxCenters)], MaxReceptors) :
        Distinct([i \in 1..Len(m) |-> m[i].path])}

FileLists == SeqsUpTo(FilePaths, MaxFiles)

-----------------------------------------------------------------------------
(* Pure parts of run_all / prepare_all *)

\* sum(len(self.ligands) * len(centers) for centers in self.receptors.values())
TotalTasks(recs, ligs) == SumSeq([i \in 1..Len(recs) |-> Len(ligs) * Len(recs[i].centers)])

\* the pool sized by the larger of the two
MaxWorkersLarger(c, n) == Max(c, n)

\* max_workers = min(cpu, total_tasks)
MaxWorkers(c, n) == Min(c, n)

\* a share rounded up instead of down
CpuPerWorkerRoundedUp(c, w) == Max(1, (c + w - 1) \div w)

\* vina_cpu = max(1, cpu // max_workers), for max_workers > 0
CpuPerWorker(c, w) == Max(1, c \div w)

\* the inner loop submitting the first ligand every time
LigandLoopFirstOnly(rec, center, ligs) ==
    [j \in 1..Len(ligs) |-> [receptor |-> rec, lig |-> ligs[1], center |-> center]]

\* for lig in self.ligands: submit(_dock_one, save_to, receptor, lig, center, ...)
LigandLoop(rec, center, ligs) ==
    [j \in 1..Len(ligs) |-> [receptor |-> rec, lig |-> ligs[j], center |-> center]]

RECURSIVE CenterLoop(_, _, _)
\* for center in centers: ...
CenterLoop(rec, centers, ligs) ==
    IF centers = <<>> THEN <<>>
    ELSE LigandLoop(rec, Head(centers), ligs) \o CenterLoop(rec, Tail(centers), ligs)

RECURSIVE CrossProduct(_, _)
\* for receptor_path, centers in self.receptors.items(): ...
\* the tasks of a docking batch, in submission order
CrossProduct(recs, ligs) ==
    IF recs = <<>> THEN <<>>
    ELSE CenterLoop(Head(recs).path, Head(recs).centers, ligs) \o CrossProduct(Tail(recs), ligs)

\* f"{receptor.stem}_{ligand.stem}_center_{center_str}", the subdirectory of save_to
OutDirName(t) == t.receptor.stem \o "_" \o t.lig.stem \o "_center_" \o CenterStr(t.center)

\* a worker that would name the receptor by its stem, as the output directory does
ReturnedKeyStem(t) == <<t.receptor.stem, PathName(t.lig), t.center>>

\* the key built from what _dock_one returns: (receptor.name, ligand.name, center)
ReturnedKey(t) == <<PathName(t.receptor), PathName(t.lig), t.center>>

\* the key built from the triple stored in the futures dict at submission
StoredKey(t) == <<PathName(t.receptor), PathName(t.lig), t.center>>

RECURSIVE SortedInsert(_, _)
SortedInsert(s, p) ==
    IF s = <<>> THEN <<p>>
    ELSE IF PathLeq(p, Head(s)) THEN <<p>> \o s
    ELSE <<Head(s)>> \o SortedInsert(Tail(s), p)

RECURSIVE SortPaths(_)
\* self.files.sort()
SortPaths(s) == IF s = <<>> THEN <<>> ELSE SortedInsert(SortPaths(Tail(s)), Head(s))


-----------------------------------------------------------------------------
(* What one task does in its worker *)

\* how the external tool of a task ends: it produces its output, or it fails
\* (a non-zero exit code; a missing output file raises the same way)
ToolOutcomes == {"ok", "nonzero_exit"}

NoRes == [exc |-> "none", msg |-> "", val |-> <<>>]

\* VinaDocking.run / AD4Docking.run after the subprocess has ended: the
\* exception it raises ("" if it returns the output directory)
RunError(k, o) ==
    IF o = "nonzero_exit"
    THEN (IF k = "vina" THEN "Error running AutoDock Vina" ELSE "AutoDock failed")
    ELSE ""

\* VinaDocking.__init__ / AD4Docking.__init__ on files that exist: the
\* exception the checks of the arguments raise ("" if they all pass)
DockingInit(t) ==
    IF t.receptor.ext # ".pdbqt" THEN "Receptor must be a .pdbqt file."
    ELSE IF t.lig.ext # ".pdbqt" THEN "Ligand must be a .pdbqt file."
    ELSE IF Len(t.center) # 3 THEN "'grid_center' must be a 3-tuple of floats."
    ELSE ""

\* _dock_one: what the future of task t resolves to
DockOne(k, t, o) ==
    IF DockingInit(t) # ""
    THEN [exc |-> "ValueError", msg |-> DockingInit(t), val |-> <<>>]
    ELSE IF RunError(k, o) # ""
    THEN [exc |-> "RuntimeError", msg |-> RunError(k, o), val |-> <<>>]
    ELSE [exc |-> "none", msg |-> "",
          val |-> Append(ReturnedKey(t), OutDirName(t))]

\* save_to / f"{protein_name}_pockets"
PocketsDirName(f) == f.stem \o "_pockets"

\* save_to / f"{self.file_path.stem}.pdbqt"
PdbqtName(f) == f.stem \o ".pdbqt"

MaxReportRows == 2

\* the column names csv.DictReader finds in the header of a prediction
\* report: the padding P2Rank puts before a name (three spaces), none, or other
ReportPaddings == {"   ", "", " "}

CoordColumns == {"center_x", "center_y", "center_z"}

\* row j of a report: the cell under each coordinate column, a number (in
\* thousandths) or text that is no number
ReportRow(j, numeric) ==
    [c \in CoordColumns |->
        IF c = "center_x"
        THEN (IF numeric THEN [kind |-> "num", v |-> 1000 * j] ELSE [kind |-> "text", v |-> 0])
        ELSE [kind |-> "num", v |-> IF c = "center_y" THEN 2000 ELSE 3000]]

\* no <file>_predictions.csv in the output directory
MissingReport == [exists |-> FALSE, padding |-> "", rows |-> <<>>]

\* the reports P2Rank can leave behind
Reports ==
    {MissingReport} \cup
    {[exists |-> TRUE, padding |-> h, rows |-> [j \in 1..Len(g) |-> ReportRow(j, g[j])]] :
        h \in ReportPaddings, g \in SeqsUpTo(BOOLEAN, MaxReportRows)}

\* a report of one pocket, as P2Rank writes it
TypicalReport == [exists |-> TRUE, padding |-> "   ", rows |-> <<ReportRow(1, TRUE)>>]

\* row.get(c, row.get("   " + c, "0")) on a row whose keys are padding + column
RowGet(rep, row, c) ==
    IF rep.padding \o c = c THEN row[c]
    ELSE IF rep.padding \o c = "   " \o c THEN row[c]
    ELSE [kind |-> "num", v |-> 0]

\* whether float(cell.strip()) raises
BadCell(cell) == cell.kind # "num"

\* PocketFinder._parse_output: the exception it raises, or the list of pockets
ParseOutput(rep) ==
    IF ~rep.exists
    THEN [exc |-> "FileNotFoundError", msg |-> "Prediction CSV not found", pockets |-> <<>>]
    ELSE IF \E j \in 1..Len(rep.rows), c \in CoordColumns : BadCell(RowGet(rep, rep.rows[j], c))
    THEN [exc |-> "ValueError", msg |-> "Failed to read prediction CSV", pockets |-> <<>>]
    ELSE IF rep.rows = <<>>
    THEN [exc |-> "ValueError", msg |-> "No pocket centers found", pockets |-> <<>>]
    ELSE [exc |-> "none", msg |-> "",
          pockets |-> [j \in 1..Len(rep.rows) |->
                         [rank |-> j,
                          center |-> <<RowGet(rep, rep.rows[j], "center_x").v,
                                       RowGet(rep, rep.rows[j], "center_y").v,
                                       RowGet(rep, rep.rows[j], "center_z").v>>]]]

\* PocketFinder.run once P2Rank has ended with the exit code and the report
PocketFinderRun(code, rep) ==
    IF code # 0
    THEN [exc |-> "RuntimeError", msg |-> "Error running P2Rank", pockets |-> <<>>]
    ELSE ParseOutput(rep)

\* BatchPocketFinder._process_one: the dict the worker returns
PocketOne(t, code, rep) ==
    LET r == PocketFinderRun(code, rep)
    IN  [exc |-> "none", msg |-> "",
         val |-> IF r.exc = "none"
                 THEN [file |-> PathStr(t.file), status |-> "success",
                       out |-> PocketsDirName(t.file), pockets |-> r.pockets]
                 ELSE [file |-> PathStr(t.file), status |-> "error",
                       out |-> r.msg, pockets |-> <<>>]]

\* BatchPocketFinder._process_one, BatchProtein._process_one, BatchLigand._process_one:
\* the dict the worker returns, an exception of the task caught inside
ProcessOne(k, t, o) ==
    [exc |-> "none", msg |-> "",
     val |-> IF o = "ok"
             THEN [file |-> PathStr(t.file), status |-> "success",
                   out |-> IF k = "pocket" THEN PocketsDirName(t.file) ELSE PdbqtName(t.file),
                   pockets |-> IF k = "pocket" THEN ParseOutput(TypicalReport).pockets ELSE <<>>]
             ELSE [file |-> PathStr(t.file), status |-> "error", out |-> o, pockets |-> <<>>]]

\* whether the task gets as far as creating its output under save_to
\* (VinaDocking.run / AD4Docking.run make the directory; the constructor does not)
WritesOutput(k, t) == k \notin DockKinds \/ DockingInit(t) = ""

\* the path under save_to that the task writes to
TargetPath(k, t) ==
    IF k \in DockKinds THEN OutDirName(t)
    ELSE IF k = "pocket" THEN PocketsDirName(t.file)
    ELSE PdbqtName(t.file)

TaskResult(k, t, o) == IF k \in DockKinds THEN DockOne(k, t, o) ELSE ProcessOne(k, t, o)

\* concurrent.futures: the exception every unfinished future gets when a worker dies
BrokenRes == [exc |-> "BrokenProcessPool", msg |-> "A process in the process pool was terminated abruptly", val |-> <<>>]

-----------------------------------------------------------------------------
(* self.results *)

HasKey(d, key) == \E i \in 1..Len(d) : d[i].key = key

\* d[key] = val on a dict kept in insertion order
DictSet(d, key, val) ==
    IF HasKey(d, key)
    THEN [i \in 1..Len(d) |-> IF d[i].key = key THEN [key |-> key, val |-> val] ELSE d[i]]
    ELSE Append(d, [key |-> key, val |-> val])

DictGet(d, key) == d[CHOOSE i \in 1..Len(d) : d[i].key = key].val

Keys(d) == {d[i].key : i \in 1..Len(d)}

\* the tasks the batch call submits, in submission order
Tasks ==
    IF kind \in DockKinds THEN CrossProduct(receptors, ligands)
    ELSE [i \in 1..Len(files) |-> [file |-> files[i]]]

PoolBroken == \E i \in 1..Len(futures) : futures[i].res.exc = "BrokenProcessPool"

Running == {i \in 1..Len(futures) : futures[i].st = "running"}
Pending == {i \in 1..Len(futures) : futures[i].st = "pending"}

\* tasks whose external tool will never end
Hung == {i \in 1..Len(futures) : futures[i].st = "hung"}

\* tasks that occupy a worker process
Busy == Running \cup Hung

SetMin(S) == CHOOSE x \in S : \A y \in S : x <= y

RECURSIVE SetToSeq(_)
\* the elements of a set of numbers in increasing order
SetToSeq(S) == IF S = {} THEN <<>> ELSE <<SetMin(S)>> \o SetToSeq(S \ {SetMin(S)})


\* the handler of the page before the button is pressed
NoPage == [state |-> "idle", error |-> "", summary |-> FALSE, metrics |-> <<>>]

\* the methods BatchVinaDocking and BatchAD4Docking define
BatchMethods(k) == {"__init__", "_dock_one", "run_all"}

\* {k: v for k, v in results.items() if isinstance(v, Path)} and the same for str
SucceededEntries(d) == {i \in 1..Len(d) : d[i].val.type = "Path"}
FailedEntries(d) == {i \in 1..Len(d) : d[i].val.type = "str"}

-----------------------------------------------------------------------------
(* The state machine *)

Init ==
    /\ kind = "none"
    /\ receptors = <<>>
    /\ ligands = <<>>
    /\ files = <<>>
    /\ pc = "start"
    /\ raised = "none"
    /\ cpu = 0
    /\ total_tasks = 0
    /\ max_workers = 0
    /\ cpu_share = 0
    /\ pool = "none"
    /\ futures = <<>>
    /\ done_order = <<>>
    /\ ncollected = 0
    /\ results = <<>>
    /\ fs = {}
    /\ finished = {}
    /\ handed = <<>>
    /\ calls = 0
    /\ page = NoPage
    /\ reports = <<>>
    /\ stage = "none"
    /\ output_dir = <<>>
    /\ started = <<>>

\* the constructor without "if not self.ligands: raise ValueError"
ConstructDockingUnchecked(k, m, l) ==
    /\ pc = "start"
    /\ kind' = k
    /\ receptors' = m
    /\ ligands' = l
    /\ pc' = "constructed"
    /\ raised' = "none"
    /\ UNCHANGED <<files, cpu, total_tasks, max_workers, cpu_share, pool, futures,
                   done_order, ncollected, results, fs,
                   finished, handed, calls, page, reports, stage, output_dir, started>>

\* BatchVinaDocking.__init__ / BatchAD4Docking.__init__ with a list of ligands
ConstructDocking(k, m, l) ==
    /\ pc = "start"
    /\ kind' = k
    /\ receptors' = m
    /\ ligands' = l
    /\ IF l = <<>>
       THEN pc' = "ctor_raised" /\ raised' = "ValueError"
       ELSE pc' = "constructed" /\ raised' = "none"
    /\ UNCHANGED <<files, cpu, total_tasks, max_workers, cpu_share, pool, futures,
                   done_order, ncollected, results, fs,
                   finished, handed, calls, page, reports, stage, output_dir, started>>

\* BatchPocketFinder.__init__ / BatchProtein.__init__ / BatchLigand.__init__ with a list of files
ConstructFiles(k, f) ==
    /\ pc = "start"
    /\ kind' = k
    /\ IF f = <<>>
       THEN files' = f /\ pc' = "ctor_raised" /\ raised' = "ValueError"
       ELSE /\ files' = (IF k = "pocket" THEN SortPaths(f) ELSE f)
            /\ pc' = "constructed"
            /\ raised' = "none"
    /\ UNCHANGED <<receptors, ligands, cpu, total_tasks, max_workers, cpu_share, pool,
                   futures, done_order, ncollected, results, fs,
                   finished, handed, calls, page, reports, stage, output_dir, started>>

Construct ==
    /\ pc = "start"
    /\ \/ \E k \in DockKinds, m \in ReceptorMaps, l \in LigandLists :
             TotalTasks(m, l) <= MaxTasks /\ ConstructDocking(k, m, l)
       \/ \E k \in FileKinds, f \in FileLists : ConstructFiles(k, f)

\* run_all / prepare_all up to the creation of the pool, called on an object
\* that has been constructed or whose earlier call has returned
RunAll(c) ==
    /\ pc \in {"constructed", "returned"}
    /\ cpu' = c
    /\ calls' = calls + 1
    /\ futures' = <<>>
    /\ done_order' = <<>>
    /\ ncollected' = 0
    /\ finished' = {}
    /\ handed' = <<>>
    /\ LET n == IF kind \in DockKinds THEN TotalTasks(receptors, ligands) ELSE Len(files)
           w == MaxWorkers(c, n)
       IN  /\ total_tasks' = n
           /\ max_workers' = w
           /\ IF kind \in {"vina", "pocket"}
              THEN IF w = 0
                   THEN \* cpu // max_workers
                        /\ cpu_share' = 0
                        /\ raised' = "ZeroDivisionError"
                        /\ pc' = "raised"
                        /\ pool' = "none"
                   ELSE /\ cpu_share' = CpuPerWorker(c, w)
                        /\ raised' = "none"
                        /\ pc' = IF n = 0 THEN "collecting" ELSE "submitting"
                        /\ pool' = "running"
              ELSE IF w = 0
                   THEN \* ProcessPoolExecutor(max_workers=0)
                        /\ cpu_share' = 0
                        /\ raised' = "ValueError"
                        /\ pc' = "raised"
                        /\ pool' = "none"
                   ELSE /\ cpu_share' = 1
                        /\ raised' = "none"
                        /\ pc' = IF n = 0 THEN "collecting" ELSE "submitting"
                        /\ pool' = "running"
    /\ UNCHANGED <<kind, receptors, ligands, files, results, fs, page, reports, stage, output_dir, started>>

\* executor.submit of the next task
Submit ==
    /\ pc = "submitting"
    /\ IF PoolBroken
       THEN \* submit raises on a broken pool; leaving the with block shuts the pool down
            /\ pc' = "raised"
            /\ raised' = "BrokenProcessPool"
            /\ pool' = "shutdown"
            /\ UNCHANGED futures
       ELSE /\ futures' = Append(futures, [task |-> Tasks[Len(futures) + 1], cpu |-> cpu_share,
                                         st |-> "pending", res |-> NoRes])
            /\ pc' = IF Len(futures) + 1 = Len(Tasks) THEN "collecting" ELSE "submitting"
            /\ UNCHANGED <<raised, pool>>
    /\ UNCHANGED <<kind, receptors, ligands, files, cpu, total_tasks, max_workers, cpu_share,
                   done_order, ncollected, results, fs,
                   finished, handed, calls, page, reports, stage, output_dir, started>>

\* a pool that starts a queued task whether or not a worker is idle
StartTaskUnbounded ==
    /\ pool = "running"
    /\ ~PoolBroken
    /\ Pending # {}
    /\ LET i == SetMin(Pending)
       IN  /\ futures' = [futures EXCEPT ![i].st = "running"]
           /\ fs' = IF WritesOutput(kind, futures[i].task)
                    THEN fs \cup {[path |-> TargetPath(kind, futures[i].task), by |-> i]}
                    ELSE fs
    /\ UNCHANGED <<kind, receptors, ligands, files, pc, raised, cpu, total_tasks, max_workers,
                   cpu_share, pool, done_order, ncollected, results,
                   finished, handed, calls, page, reports, stage, output_dir, started>>

\* an idle worker process takes the oldest queued task and runs it up to the
\* call of the external tool
StartTask ==
    /\ pool = "running"
    /\ ~PoolBroken
    /\ Pending # {}
    /\ Cardinality(Busy) < max_workers
    /\ LET i == SetMin(Pending)
       IN  /\ futures' = [futures EXCEPT ![i].st = "running"]
           /\ fs' = IF WritesOutput(kind, futures[i].task)
                    THEN fs \cup {[path |-> TargetPath(kind, futures[i].task), by |-> i]}
                    ELSE fs
    /\ UNCHANGED <<kind, receptors, ligands, files, pc, raised, cpu, total_tasks, max_workers,
                   cpu_share, pool, done_order, ncollected, results,
                   finished, handed, calls, page, reports, stage, output_dir, started>>

\* a worker that would store its outcome in the results of the batch object itself
FinishTaskWritesResults(i, o) ==
    /\ pool = "running"
    /\ i \in Running
    /\ futures' = [futures EXCEPT ![i].st = "done", ![i].res = TaskResult(kind, futures[i].task, o)]
    /\ done_order' = Append(done_order, i)
    /\ results' = Append(results, [key |-> i, val |-> o])
    /\ UNCHANGED <<kind, receptors, ligands, files, pc, raised, cpu, total_tasks, max_workers,
                   cpu_share, pool, ncollected, fs,
                   finished, handed, calls, page, reports, stage, output_dir, started>>

\* the external tool of a running task ends and the worker hands the result back
FinishTask(i, o) ==
    /\ pool = "running"
    /\ i \in Running
    /\ futures' = [futures EXCEPT ![i].st = "done", ![i].res = TaskResult(kind, futures[i].task, o)]
    /\ done_order' = Append(done_order, i)
    /\ UNCHANGED <<kind, receptors, ligands, files, pc, raised, cpu, total_tasks, max_workers,
                   cpu_share, pool, ncollected, results, fs,
                   finished, handed, calls, page, reports, stage, output_dir, started>>

\* a worker process dies while running a task: the pool is broken and every
\* future that has not resolved gets BrokenProcessPool
WorkerCrash ==
    /\ pool = "running"
    /\ Running # {}
    /\ futures' = [i \in 1..Len(futures) |->
                     IF futures[i].st = "done" THEN futures[i]
                     ELSE [futures[i] EXCEPT !.st = "done", !.res = BrokenRes]]
    /\ done_order' = done_order \o SetToSeq(Busy \cup Pending)
    /\ UNCHANGED <<kind, receptors, ligands, files, pc, raised, cpu, total_tasks, max_workers,
                   cpu_share, pool, ncollected, results, fs,
                   finished, handed, calls, page, reports, stage, output_dir, started>>

\* a loop body that would store the message of the exception alone
RecordDockingVerbatim(d, f) ==
    IF f.res.exc = "none"
    THEN DictSet(d, <<f.res.val[1], f.res.val[2], f.res.val[3]>>,
                 [type |-> "Path", text |-> f.res.val[4]])
    ELSE DictSet(d, StoredKey(f.task), [type |-> "str", text |-> f.res.msg])

\* the body of the loop of the docking batches applied to the dict d and the
\* resolved future f: try: ... = future.result(); self.results[...] = path
\* except Exception as e: self.results[...] = f"Failed: {e}"
RecordDocking(d, f) ==
    IF f.res.exc = "none"
    THEN DictSet(d, <<f.res.val[1], f.res.val[2], f.res.val[3]>>,
                 [type |-> "Path", text |-> f.res.val[4]])
    ELSE DictSet(d, StoredKey(f.task), [type |-> "str", text |-> "Failed: " \o f.res.msg])

\* one iteration of "for future in as_completed(futures)" in the docking batches
CollectDocking(i) ==
    /\ results' = RecordDocking(results, futures[i])
    /\ UNCHANGED <<pc, raised, pool>>

\* centers = [p["center"] for p in pockets]
CentersOf(pockets) == [j \in 1..Len(pockets) |-> pockets[j].center]

\* the loop body with the commented-out "self.results[file_path] = []" enabled
CollectPocketKeepsFailed(i) ==
    LET f == futures[i]
    IN  IF f.res.exc # "none"
        THEN /\ pc' = "raised"
             /\ raised' = f.res.exc
             /\ pool' = "shutdown"
             /\ UNCHANGED results
        ELSE /\ results' = IF f.res.val.status = "success"
                           THEN DictSet(results, f.res.val.file,
                                        [type |-> "list", text |-> "centers",
                                         centers |-> CentersOf(f.res.val.pockets)])
                           ELSE DictSet(results, f.res.val.file,
                                        [type |-> "list", text |-> "empty", centers |-> <<>>])
             /\ UNCHANGED <<pc, raised, pool>>

\* one iteration of the loop of BatchPocketFinder.run_all
CollectPocket(i) ==
    LET f == futures[i]
    IN  IF f.res.exc # "none"
        THEN \* future.result() raises
             /\ pc' = "raised"
             /\ raised' = f.res.exc
             /\ pool' = "shutdown"
             /\ UNCHANGED results
        ELSE /\ results' = IF f.res.val.status = "success"
                           THEN DictSet(results, f.res.val.file,
                                        [type |-> "list", text |-> "centers",
                                         centers |-> CentersOf(f.res.val.pockets)])
                           ELSE results
             /\ UNCHANGED <<pc, raised, pool>>

\* one iteration of the loop of BatchProtein.prepare_all / BatchLigand.prepare_all
CollectPrep(i) ==
    LET f == futures[i]
    IN  IF f.res.exc # "none"
        THEN /\ pc' = "raised"
             /\ raised' = f.res.exc
             /\ pool' = "shutdown"
             /\ UNCHANGED results
        ELSE /\ results' = Append(results, f.res.val)
             /\ UNCHANGED <<pc, raised, pool>>

\* the loop statement starts the as_completed generator, which first sets
\* apart the futures that have already resolved
AsCompleted ==
    /\ pc = "collecting"
    /\ pc' = "looping"
    /\ finished' = Range(done_order)
    /\ UNCHANGED <<kind, receptors, ligands, files, raised, cpu, total_tasks, max_workers,
                   cpu_share, pool, futures, done_order, ncollected, results, fs,
                   handed, calls, page, reports, stage, output_dir, started>>

\* an iterator that yields any resolved future, in no particular order
YieldableAnyResolved ==
    {i \in 1..Len(futures) : futures[i].st = "done"} \ Range(handed)

\* the futures as_completed may yield next: those that had resolved when it
\* began come first, in the order of a set; the others in the order they resolve
Yieldable ==
    IF finished # {} THEN finished
    ELSE IF ncollected < Len(done_order) THEN {done_order[ncollected + 1]}
    ELSE {}

\* a loop that takes resolved futures while tasks are still being submitted
CollectWhileSubmitting ==
    /\ pc \in {"submitting", "looping"}
    /\ \E i \in Yieldable :
          /\ IF kind \in DockKinds THEN CollectDocking(i)
             ELSE IF kind = "pocket" THEN CollectPocket(i)
             ELSE CollectPrep(i)
          /\ handed' = Append(handed, i)
          /\ finished' = finished \ {i}
    /\ ncollected' = ncollected + 1
    /\ UNCHANGED <<kind, receptors, ligands, files, cpu, total_tasks, max_workers, cpu_share,
                   futures, done_order, fs, calls, page, reports, stage, output_dir, started>>

\* as_completed hands the next resolved future to the loop body
Collect ==
    /\ pc = "looping"
    /\ \E i \in Yieldable :
          /\ IF kind \in DockKinds THEN CollectDocking(i)
             ELSE IF kind = "pocket" THEN CollectPocket(i)
             ELSE CollectPrep(i)
          /\ handed' = Append(handed, i)
          /\ finished' = finished \ {i}
    /\ ncollected' = ncollected + 1
    /\ UNCHANGED <<kind, receptors, ligands, files, cpu, total_tasks, max_workers, cpu_share,
                   futures, done_order, fs, calls, page, reports, stage, output_dir, started>>

\* a loop that gives up on the futures still unresolved
ReturnWithoutWaiting ==
    /\ pc = "looping"
    /\ ncollected = Len(done_order)
    /\ pc' = "returned"
    /\ pool' = "shutdown"
    /\ UNCHANGED <<kind, receptors, ligands, files, raised, cpu, total_tasks, max_workers,
                   cpu_share, futures, done_order, ncollected, results, fs,
                   finished, handed, calls, page, reports, stage, output_dir, started>>

\* every future has been handed out: the with block ends and the call returns self.results
Return ==
    /\ pc = "looping"
    /\ ncollected = Len(futures)
    /\ pc' = "returned"
    /\ pool' = "shutdown"
    /\ UNCHANGED <<kind, receptors, ligands, files, raised, cpu, total_tasks, max_workers,
                   cpu_share, futures, done_order, ncollected, results, fs,
                   finished, handed, calls, page, reports, stage, output_dir, started>>

\* the "Run Batch Docking" handler of the Streamlit page, from the return of
\* the batch call (or the exception that left it) to its end: it asks the
\* batch object for the combined summary, then shows the three counts
ReportBatch ==
    /\ kind \in DockKinds
    /\ pc \in {"ctor_raised", "raised", "returned"}
    /\ page.state = "idle"
    /\ page' = IF pc # "returned"
               THEN \* except Exception as e: st.error(str(e))
                    [state |-> "error", error |-> raised, summary |-> FALSE, metrics |-> <<>>]
               ELSE IF "parse_results" \notin BatchMethods(kind)
               THEN \* batch.parse_results raises, caught by the same except
                    [state |-> "error", error |-> "AttributeError", summary |-> FALSE, metrics |-> <<>>]
               ELSE [state |-> "done", error |-> "", summary |-> TRUE,
                     metrics |-> <<TotalTasks(receptors, ligands),
                                   Cardinality(SucceededEntries(results)),
                                   Cardinality(FailedEntries(results))>>]
    /\ UNCHANGED <<kind, receptors, ligands, files, pc, raised, cpu, total_tasks, max_workers,
                   cpu_share, pool, futures, done_order, ncollected, results, fs,
                   finished, handed, calls, reports, stage, output_dir, started>>

Next ==
    \/ Construct
    \/ \E c \in 1..MaxCpu : calls = 0 /\ RunAll(c)
    \/ Submit
    \/ StartTask
    \/ \E i \in Running, o \in ToolOutcomes : FinishTask(i, o)
    \/ WorkerCrash
    \/ AsCompleted
    \/ Collect
    \/ Return
    \/ ReportBatch

Spec == Init /\ [][Next]_vars


-----------------------------------------------------------------------------
(* The CPU allocation alone: lines 137-141 of batch_vina.py and 147-152 of   *)
(* batch_pocket_finder.py applied to every budget and task count             *)

InitAlloc ==
    /\ kind \in {"vina", "pocket"}
    /\ cpu \in 1..MaxAllocCpu
    /\ total_tasks \in 1..MaxAllocTasks
    /\ pc = "allocating"
    /\ receptors = <<>>
    /\ ligands = <<>>
    /\ files = <<>>
    /\ raised = "none"
    /\ max_workers = 0
    /\ cpu_share = 0
    /\ pool = "none"
    /\ futures = <<>>
    /\ done_order = <<>>
    /\ ncollected = 0
    /\ results = <<>>
    /\ fs = {}
    /\ finished = {}
    /\ handed = <<>>
    /\ calls = 0
    /\ page = NoPage
    /\ reports = <<>>
    /\ stage = "none"
    /\ output_dir = <<>>
    /\ started = <<>>

Allocate ==
    /\ pc = "allocating"
    /\ max_workers' = MaxWorkers(cpu, total_tasks)
    /\ cpu_share' = CpuPerWorker(cpu, MaxWorkers(cpu, total_tasks))
    /\ pc' = "allocated"
    /\ UNCHANGED <<kind, receptors, ligands, files, raised, cpu, total_tasks, pool, futures,
                   done_order, ncollected, results, fs,
                   finished, handed, calls, page, reports, stage, output_dir, started>>

SpecAlloc == InitAlloc /\ [][Allocate]_vars

-----------------------------------------------------------------------------
(* The task builder alone: construction, allocation and the submission loop  *)
(* of a docking batch, no worker taking a step                               *)

ConstructBuild ==
    /\ pc = "start"
    /\ \E k \in DockKinds, m \in BuildMaps, l \in LigandLists : ConstructDocking(k, m, l)

NextBuild ==
    \/ ConstructBuild
    \/ pc = "constructed" /\ RunAll(MaxCpu)
    \/ Submit

SpecBuild == Init /\ [][NextBuild]_vars


-----------------------------------------------------------------------------
(* A docking batch handed malformed input: a receptor or a ligand that is  *)
(* not a .pdbqt file, a center of two coordinates                          *)

MaxConfigTasks == 2

ConfigRecPaths == {MkPath("d1", "R1", ".pdbqt"), MkPath("d1", "R2", ".pdb")}

ConfigLigPaths == {MkPath("d1", "L1", ".pdbqt"), MkPath("d1", "L3", ".sdf")}

\* (1.0, 2.0, 3.0) and (1.0, 2.0)
ConfigCenters == {<<1000, 2000, 3000>>, <<1000, 2000>>}

ConfigMaps ==
    {m \in SeqsUpTo([path : ConfigRecPaths, centers : SeqsUpTo(ConfigCenters, MaxCenters)], MaxReceptors) :
        Distinct([i \in 1..Len(m) |-> m[i].path])}

ConfigLigandLists == SeqsUpTo(ConfigLigPaths, MaxLigands)

ConstructConfig ==
    /\ pc = "start"
    /\ \E k \in DockKinds, m \in ConfigMaps, l \in ConfigLigandLists :
          TotalTasks(m, l) <= MaxConfigTasks /\ ConstructDocking(k, m, l)

NextConfig ==
    \/ ConstructConfig
    \/ calls = 0 /\ RunAll(MaxCpu)
    \/ Submit
    \/ StartTask
    \/ \E i \in Running, o \in ToolOutcomes : FinishTask(i, o)
    \/ AsCompleted
    \/ Collect
    \/ Return

SpecConfig == Init /\ [][NextConfig]_vars

-----------------------------------------------------------------------------
(* One batch object whose run_all / prepare_all is called more than once,    *)
(* no worker dying                                                           *)

MaxCalls == 2
MaxRerunTasks == 2

ConstructRerun ==
    /\ pc = "start"
    /\ \/ \E k \in DockKinds, m \in ReceptorMaps, l \in LigandLists :
             TotalTasks(m, l) <= MaxRerunTasks /\ ConstructDocking(k, m, l)
       \/ \E k \in FileKinds, f \in SeqsUpTo(FilePaths, MaxRerunTasks) : ConstructFiles(k, f)

NextRerun ==
    \/ ConstructRerun
    \/ calls < MaxCalls /\ RunAll(MaxCpu)
    \/ Submit
    \/ StartTask
    \/ \E i \in Running, o \in ToolOutcomes : FinishTask(i, o)
    \/ AsCompleted
    \/ Collect
    \/ Return

SpecRerun == Init /\ [][NextRerun]_vars

-----------------------------------------------------------------------------
(* A batch call whose pool does not crash, whose external tools all end,   *)
(* and whose workers and driving loop keep being scheduled                 *)

FinishSome == \E i \in Running, o \in ToolOutcomes : FinishTask(i, o)

NextLive ==
    \/ Construct
    \/ \E c \in 1..MaxCpu : calls = 0 /\ RunAll(c)
    \/ Submit
    \/ StartTask
    \/ FinishSome
    \/ AsCompleted
    \/ Collect
    \/ Return

SpecLive ==
    /\ Init
    /\ [][NextLive]_vars
    /\ WF_vars(Submit)
    /\ WF_vars(StartTask)
    /\ WF_vars(FinishSome)
    /\ WF_vars(AsCompleted)
    /\ WF_vars(Collect)
    /\ WF_vars(Return)

-----------------------------------------------------------------------------
(* A Vina batch in which the external tool of a task may never end:        *)
(* subprocess.run has no timeout, as_completed has none, no pool crash     *)

MaxHangTasks == 2
MaxHung == 1

\* subprocess.run(cmd, ...) of task i blocks for ever
Hang(i) ==
    /\ pool = "running"
    /\ i \in Running
    /\ futures' = [futures EXCEPT ![i].st = "hung"]
    /\ UNCHANGED <<kind, receptors, ligands, files, pc, raised, cpu, total_tasks, max_workers,
                   cpu_share, pool, done_order, ncollected, results, fs,
                   finished, handed, calls, page, reports, stage, output_dir, started>>

ConstructHang ==
    /\ pc = "start"
    /\ \E cs \in SeqsUpTo(Centers, MaxHangTasks) :
          /\ cs # <<>>
          /\ ConstructDocking("vina", <<[path |-> MkPath("d1", "R1", ".pdbqt"), centers |-> cs]>>,
                              <<MkPath("d1", "L1", ".pdbqt")>>)

HangSome == \E i \in Running : Cardinality(Hung) < MaxHung /\ Hang(i)

NextHang ==
    \/ ConstructHang
    \/ \E c \in 1..MaxCpu : calls = 0 /\ RunAll(c)
    \/ Submit
    \/ StartTask
    \/ FinishSome
    \/ HangSome
    \/ AsCompleted
    \/ Collect
    \/ Return

SpecHang ==
    /\ Init
    /\ [][NextHang]_vars
    /\ WF_vars(Submit)
    /\ WF_vars(StartTask)
    /\ WF_vars(FinishSome)
    /\ WF_vars(AsCompleted)
    /\ WF_vars(Collect)
    /\ WF_vars(Return)

-----------------------------------------------------------------------------
(* The CPUs in use while a batch runs: every batch class, a wider range of *)
(* budgets, inputs that differ only in the number of tasks, no pool crash  *)

MaxBudgetCpu == 4
MaxBudgetTasks == 3

ConstructBudget ==
    /\ pc = "start"
    /\ \E n \in 1..MaxBudgetTasks :
          \/ \E k \in DockKinds :
                ConstructDocking(k, <<[path |-> MkPath("d1", "R1", ".pdbqt"),
                                       centers |-> [j \in 1..n |-> <<1000 * j, 2000, 3000>>]]>>,
                                 <<MkPath("d1", "L1", ".pdbqt")>>)
          \/ \E k \in FileKinds :
                ConstructFiles(k, [j \in 1..n |->
                                      FilePathsInOrder[((j - 1) % Len(FilePathsInOrder)) + 1]])

NextBudget ==
    \/ ConstructBudget
    \/ \E c \in 1..MaxBudgetCpu : calls = 0 /\ RunAll(c)
    \/ Submit
    \/ StartTask
    \/ FinishSome
    \/ AsCompleted
    \/ Collect
    \/ Return

SpecBudget == Init /\ [][NextBudget]_vars

-----------------------------------------------------------------------------
(* One AD4Docking.run call (autodock4.py 284-359) into a fresh output       *)
(* directory.  AutoGrid and AutoDock are external programs: their exit code *)
(* and the files they leave behind are whatever they happen to be.  A line  *)
(* of results.dlg is [head, no, nl]: what it starts with, its line number,  *)
(* and whether a newline ends it (only the last line of a file may lack it) *)

MaxDlgLines == 4

LineHeads == {"MODEL", "ENDMDL", "ATOM"}

\* line.startswith(prefix)
StartsWith(line, prefix) == line.head = prefix

\* the files AutoDock can write as results.dlg
DlgFiles ==
    {[i \in 1..Len(h) |-> [head |-> h[i], no |-> i, nl |-> (i < Len(h) \/ last)]] :
        h \in SeqsUpTo(LineHeads, MaxDlgLines), last \in BOOLEAN}

\* the line that a "\n" written after a finished line makes
EmptyLine == [head |-> "", no |-> 0, nl |-> TRUE]

\* open(path, 'w') and write: the directory with the file name holding the lines
WriteFile(dir, name, content) ==
    [n \in (DOMAIN dir) \cup {name} |-> IF n = name THEN content ELSE dir[n]]

RECURSIVE ScanLines(_, _, _, _)
\* the loop "for line in lines" of _extract_lowest_energy_conformations:
\* the list models once the lines are used up
ScanLines(lines, capture, current_model, models) ==
    IF lines = <<>> THEN models
    ELSE LET line == Head(lines)
         IN  IF StartsWith(line, "MODEL")
             THEN ScanLines(Tail(lines), TRUE, <<line>>, models)
             ELSE IF StartsWith(line, "ENDMDL") /\ capture
             THEN ScanLines(Tail(lines), FALSE, Append(current_model, line),
                            Append(models, Append(current_model, line)))
             ELSE IF capture
             THEN ScanLines(Tail(lines), capture, Append(current_model, line), models)
             ELSE ScanLines(Tail(lines), capture, current_model, models)

RECURSIVE FlattenSeq(_)
\* what successive writes leave in a file: the lines of each write, one after the other
FlattenSeq(ss) == IF ss = <<>> THEN <<>> ELSE Head(ss) \o FlattenSeq(Tail(ss))

\* a writer that leaves out the "\n" after each model
WriteModelsBare(models) ==
    FlattenSeq(models)

\* "for model in models: out.write(model + '\n')": the lines of the file
\* written.  The newline makes an empty line after a model whose last line
\* ended with a newline, and ends that line otherwise
WriteModels(models) ==
    FlattenSeq([j \in 1..Len(models) |->
        LET m == models[j]
            last == m[Len(m)]
        IN  IF last.nl THEN Append(m, EmptyLine)
            ELSE [m EXCEPT ![Len(m)].nl = TRUE]])

\* _extract_lowest_energy_conformations(dlg_file, output_pdbqt) on the
\* directory holding both files: the directory afterwards
ExtractLowestEnergyConformations(dir) ==
    LET models == ScanLines(dir["results.dlg"], FALSE, <<>>, <<>>)
    IN  IF models = <<>> THEN dir
        ELSE WriteFile(dir, "output.pdbqt", WriteModels(models))

UnchangedBatch ==
    UNCHANGED <<kind, receptors, ligands, files, pc, cpu, total_tasks, max_workers,
                cpu_share, pool, futures, done_order, ncollected, results, fs,
                finished, handed, calls, page, reports>>

\* run up to the first subprocess: the directory is made, receptor and ligand
\* are copied into it, the grid parameter file is written
RunSetup ==
    /\ stage = "none"
    /\ output_dir' = WriteFile(WriteFile(WriteFile(output_dir, "receptor.pdbqt", <<>>),
                                         "ligand.pdbqt", <<>>), "receptor.gpf", <<>>)
    /\ stage' = "setup"
    /\ UNCHANGED <<raised, started>>
    /\ UnchangedBatch

\* subprocess.run(autogrid_cmd) and the checks after it; then _create_dpf
RunAutoGrid(code, glg, fld) ==
    /\ stage = "setup"
    /\ started' = Append(started, [prog |-> "autogrid", code |-> code])
    /\ LET d1 == IF glg THEN WriteFile(output_dir, "receptor.glg", <<>>) ELSE output_dir
           d2 == IF fld THEN WriteFile(d1, "receptor.maps.fld", <<>>) ELSE d1
       IN  IF code # 0
           THEN /\ output_dir' = d2
                /\ stage' = "raised"
                /\ raised' = IF glg THEN "RuntimeError" ELSE "CalledProcessError"
           ELSE IF ~fld
           THEN /\ output_dir' = d2
                /\ stage' = "raised"
                /\ raised' = "RuntimeError"
           ELSE /\ output_dir' = WriteFile(d2, "ligand.dpf", <<>>)
                /\ stage' = "grid_done"
                /\ raised' = "none"
    /\ UnchangedBatch

\* subprocess.run(autodock_cmd) and the checks after it
RunAutoDock(code, wrote, dlg) ==
    /\ stage = "grid_done"
    /\ started' = Append(started, [prog |-> "autodock", code |-> code])
    /\ output_dir' = IF wrote THEN WriteFile(output_dir, "results.dlg", dlg) ELSE output_dir
    /\ IF code # 0
       THEN stage' = "raised" /\ raised' = (IF wrote THEN "RuntimeError" ELSE "CalledProcessError")
       ELSE IF ~wrote
       THEN stage' = "raised" /\ raised' = "RuntimeError"
       ELSE stage' = "dock_done" /\ raised' = "none"
    /\ UnchangedBatch

\* the extraction of the poses and "return self.output_dir"
ExtractAndReturn ==
    /\ stage = "dock_done"
    /\ output_dir' = ExtractLowestEnergyConformations(output_dir)
    /\ stage' = "returned"
    /\ UNCHANGED <<raised, started>>
    /\ UnchangedBatch

NextAD4 ==
    \/ RunSetup
    \/ \E code \in {0, 1}, glg, fld \in BOOLEAN : RunAutoGrid(code, glg, fld)
    \/ \E code \in {0, 1}, wrote \in BOOLEAN, dlg \in DlgFiles :
           (wrote \/ dlg = <<>>) /\ RunAutoDock(code, wrote, dlg)
    \/ ExtractAndReturn

SpecAD4 == Init /\ [][NextAD4]_vars

-----------------------------------------------------------------------------
(* One call of BatchPocketFinder.run_all in which P2Rank ends with any exit *)
(* code and leaves any report behind, no pool crash                         *)

MaxPocketFiles == 2

ConstructPockets ==
    \E n \in 1..MaxPocketFiles :
        ConstructFiles("pocket", [j \in 1..n |-> FilePathsInOrder[((j - 1) % Len(FilePathsInOrder)) + 1]])

\* P2Rank of a running task ends, PocketFinder.run reads the report, and the
\* worker hands the dict back
FinishPocket(i, code, rep) ==
    /\ pool = "running"
    /\ kind = "pocket"
    /\ i \in Running
    /\ futures' = [futures EXCEPT ![i].st = "done", ![i].res = PocketOne(futures[i].task, code, rep)]
    /\ done_order' = Append(done_order, i)
    /\ reports' = WriteFile(reports, i, rep)
    /\ UNCHANGED <<kind, receptors, ligands, files, pc, raised, cpu, total_tasks, max_workers,
                   cpu_share, pool, ncollected, results, fs,
                   finished, handed, calls, page, stage, output_dir, started>>

NextPockets ==
    \/ ConstructPockets
    \/ (calls = 0 /\ RunAll(MaxCpu))
    \/ Submit
    \/ StartTask
    \/ \E i \in Running, code \in {0, 1}, rep \in Reports :
           (code = 0 \/ rep = MissingReport) /\ FinishPocket(i, code, rep)
    \/ AsCompleted
    \/ Collect
    \/ Return

SpecPockets == Init /\ [][NextPockets]_vars

-----------------------------------------------------------------------------
(* Claims *)

CountIdx(s, v) == Cardinality({i \in 1..Len(s) : s[i] = v})

Succeeded(i) == futures[i].st = "done" /\ futures[i].res.exc = "none"
Failed(i) == futures[i].st = "done" /\ futures[i].res.exc # "none"

\* C1: when run_all of a docking batch returns, the mapping has exactly one
\* entry per submitted task (as many entries as tasks), and the entry of a
\* task is a path if and only if its docking returned normally. Stated for
\* batches whose tasks are pairwise different and in which no worker died.
C1_OneEntryPerTask ==
    (kind \in DockKinds /\ pc = "returned" /\ Distinct(Tasks) /\ ~PoolBroken) =>
        /\ Len(futures) = total_tasks
        /\ Len(results) = total_tasks
        /\ \A i \in 1..Len(futures) :
              /\ HasKey(results, StoredKey(futures[i].task))
              /\ (DictGet(results, StoredKey(futures[i].task)).type = "Path") <=> Succeeded(i)

\* C2: in a docking batch whose tasks fail by raising (no worker dies), run_all
\* does not raise once the pool runs, and when it returns every succeeding
\* task is recorded as a success with its own result path and every failing
\* task as a failure. Stated for batches whose tasks are pairwise different.
C2_FailureIsolation ==
    (kind \in DockKinds /\ Distinct(Tasks) /\ ~PoolBroken) =>
        /\ (pc = "raised" => pool = "none")
        /\ (pc = "returned" =>
              \A i \in 1..Len(futures) :
                 /\ HasKey(results, StoredKey(futures[i].task))
                 /\ Succeeded(i) =>
                       DictGet(results, StoredKey(futures[i].task)) =
                           [type |-> "Path", text |-> OutDirName(futures[i].task)]
                 /\ Failed(i) => DictGet(results, StoredKey(futures[i].task)).type = "str")

\* C3: for every cpu >= 1 and task count >= 1 the allocation uses
\* min(cpu, tasks) workers and max(1, cpu // workers) CPUs per task: the
\* worker count is the budget or the task count and exceeds neither, the
\* share is the largest whole number of CPUs each worker can get, at least 1;
\* (8, 20) gives (8, 1) and (16, 4) gives (4, 4).
C3_Allocation ==
    pc = "allocated" =>
        /\ max_workers <= cpu
        /\ max_workers <= total_tasks
        /\ max_workers = cpu \/ max_workers = total_tasks
        /\ cpu_share >= 1
        /\ cpu_share * max_workers <= cpu
        /\ (cpu_share + 1) * max_workers > cpu
        /\ (cpu = 8 /\ total_tasks = 20) => (max_workers = 8 /\ cpu_share = 1)
        /\ (cpu = 16 /\ total_tasks = 4) => (max_workers = 4 /\ cpu_share = 4)

C3_Witness ==
    pc = "allocated" /\ cpu = 16 /\ total_tasks = 4 /\ max_workers = 4 /\ cpu_share = 4

ScenarioReceptors ==
    << [path |-> MkPath("d1", "R1", ".pdbqt"), centers |-> << <<1000, 2000, 3000>> >>],
       [path |-> MkPath("d1", "R2", ".pdbqt"), centers |-> << <<4000, 5000, 6000>>, <<7000, 8000, 9000>> >>] >>

ScenarioLigands == << MkPath("d1", "L1", ".pdbqt"), MkPath("d1", "L2", ".pdbqt") >>

ScenarioKeys ==
    { <<"R1.pdbqt", "L1.pdbqt", <<1000, 2000, 3000>> >>, <<"R1.pdbqt", "L2.pdbqt", <<1000, 2000, 3000>> >>,
      <<"R2.pdbqt", "L1.pdbqt", <<4000, 5000, 6000>> >>, <<"R2.pdbqt", "L2.pdbqt", <<4000, 5000, 6000>> >>,
      <<"R2.pdbqt", "L1.pdbqt", <<7000, 8000, 9000>> >>, <<"R2.pdbqt", "L2.pdbqt", <<7000, 8000, 9000>> >> }

\* C4: once the submission loop of a docking batch has ended, the futures are
\* exactly the cross-product: as many as total_tasks, every future is the task
\* of some (receptor, center, ligand) of the inputs, and every such
\* combination has as many futures as it occurs in the inputs (one, when the
\* center list and the ligand list hold no value twice); the receptors
\* {R1: [(1,2,3)], R2: [(4,5,6), (7,8,9)]} with ligands [L1, L2] give the six
\* listed keys.
C4_CrossProduct ==
    (kind \in DockKinds /\ pc = "collecting") =>
        /\ Len(futures) = total_tasks
        /\ \A i \in 1..Len(futures) :
              \E r \in 1..Len(receptors) :
                 /\ futures[i].task.receptor = receptors[r].path
                 /\ futures[i].task.center \in Range(receptors[r].centers)
                 /\ futures[i].task.lig \in Range(ligands)
        /\ \A r \in 1..Len(receptors) :
              \A c \in Range(receptors[r].centers), l \in Range(ligands) :
                 Cardinality({i \in 1..Len(futures) :
                                 futures[i].task = [receptor |-> receptors[r].path, lig |-> l, center |-> c]})
                    = CountIdx(receptors[r].centers, c) * CountIdx(ligands, l)
        /\ (receptors = ScenarioReceptors /\ ligands = ScenarioLigands) =>
              /\ Len(futures) = 6
              /\ {StoredKey(futures[i].task) : i \in 1..Len(futures)} = ScenarioKeys

C4_Witness ==
    /\ kind \in DockKinds
    /\ pc = "collecting"
    /\ receptors = ScenarioReceptors
    /\ ligands = ScenarioLigands
    /\ Len(futures) = 6

\* C5: any two submitted tasks of a docking batch that differ in receptor
\* path, ligand path or center are recorded under different keys.
C5_KeysDistinct ==
    kind \in DockKinds =>
        \A i, j \in 1..Len(futures) :
           futures[i].task # futures[j].task => StoredKey(futures[i].task) # StoredKey(futures[j].task)

\* C6: any two different tasks of a docking batch write to different
\* subdirectories of save_to.
C6_DirsDistinct ==
    kind \in DockKinds =>
        \A x, y \in fs :
           futures[x.by].task # futures[y.by].task => x.path # y.path

C8_CrashRecorded ==
    (PoolBroken /\ Len(futures) = total_tasks) =>
        /\ pc # "raised"
        /\ (pc = "returned" /\ kind \in DockKinds) =>
              \A i \in 1..Len(futures) :
                 futures[i].res.exc = "BrokenProcessPool" =>
                    /\ HasKey(results, StoredKey(futures[i].task))
                    /\ DictGet(results, StoredKey(futures[i].task)).type = "str"

\* C9: a docking batch given an empty ligand list is rejected by the
\* constructor with ValueError: no pool exists, nothing is submitted.
C9_EmptyLigandsRejected ==
    (kind \in DockKinds /\ ligands = <<>>) =>
        /\ pc = "ctor_raised"
        /\ raised = "ValueError"
        /\ pool = "none"
        /\ futures = <<>>
        /\ results = <<>>

C9_Witness ==
    /\ kind \in DockKinds
    /\ ligands = <<>>
    /\ receptors # <<>>
    /\ pc = "ctor_raised"
    /\ raised = "ValueError"

\* C10: a docking batch whose cross-product is empty because no receptor has
\* a center is rejected as a configuration error (ValueError) with no pool
\* created and an empty outcome map.
C10_EmptyCrossProductRejected ==
    (/\ kind \in DockKinds
     /\ ligands # <<>>
     /\ TotalTasks(receptors, ligands) = 0
     /\ pc \notin {"start", "constructed"}) =>
        /\ raised = "ValueError"
        /\ pool = "none"
        /\ results = <<>>

\* a task of the batch whose receptor, ligand or center the docking class rejects
Malformed == kind \in DockKinds /\ \E i \in 1..Len(Tasks) : DockingInit(Tasks[i]) # ""

\* C11: a docking batch with a malformed center or a receptor / ligand of an
\* unsupported extension raises to the caller before any task is scheduled:
\* no future is ever submitted, no entry is ever recorded, and the call
\* never returns an outcome map.
C11_ConfigFailsFast ==
    Malformed => futures = <<>> /\ results = <<>> /\ pc # "returned"

\* how many records of a list of preparation records name the file f
RecordsOf(rs, f) == Cardinality({j \in 1..Len(rs) : rs[j].file = f})

\* C12: the list BatchProtein.prepare_all / BatchLigand.prepare_all returns
\* holds exactly one record per input file; a record names its file and has
\* status "success" with the path of the prepared file or status "error"
\* with the error message.
C12_OneRecordPerFile ==
    (kind \in PrepKinds /\ pc = "returned") =>
        /\ Len(results) = Len(files)
        /\ \A i \in 1..Len(files) :
              RecordsOf(results, PathStr(files[i])) = CountIdx(files, files[i])
        /\ \A j \in 1..Len(results) :
              \/ results[j].status = "success" /\ results[j].out = PdbqtName(files[CHOOSE i \in 1..Len(files) : PathStr(files[i]) = results[j].file])
              \/ results[j].status = "error" /\ results[j].out \in ToolOutcomes \ {"ok"}

\* C13: in every call of run_all / prepare_all the outcome collection is
\* empty when the call starts and grows only as the futures of that call are
\* handed to the loop, so it never holds more entries than futures of the
\* current call have been handed out, and the list a preparation call
\* returns has exactly one entry per task of that call.
C13_FreshPerCall ==
    /\ pc \in {"submitting", "collecting", "looping", "returned"} => Len(results) <= ncollected
    /\ (pc = "returned" /\ kind \in PrepKinds) => Len(results) = Len(futures)

\* C14: without a pool crash, with every external operation ending and the
\* workers scheduled fairly, a run_all that has created its pool eventually
\* returns, every submitted task having got its outcome, with one entry per
\* submitted task (stated for docking batches of pairwise different tasks).
C14_ReturnsOneEntryPerTask ==
    (kind \in DockKinds /\ pc = "submitting" /\ Distinct(Tasks)) ~>
        (pc = "returned" /\ Len(futures) = total_tasks /\ Len(results) = total_tasks)

\* the termination half of C14 alone: the call returns, every task submitted
\* and every future handed to the loop
Terminates ==
    (pc = "submitting") ~> (pc = "returned" /\ Len(futures) = total_tasks /\ ncollected = total_tasks)

\* C15 as stated: outcomes are recorded in completion order, the j-th outcome
\* handed to the loop and inserted being that of the j-th task to complete.
C15_CompletionOrder ==
    \A j \in 1..Len(handed) : handed[j] = done_order[j]

\* C15 amended: outcomes are recorded in the order as_completed yields the
\* futures; at every moment the outcomes recorded so far, together with the
\* futures that had resolved before the loop began and are still to be
\* yielded, are those of the first k tasks to have completed, for some k.
C15_YieldsCompletionPrefix ==
    \E k \in 0..Len(done_order) :
        Range(handed) \cup finished = {done_order[j] : j \in 1..k}

\* an outcome has been recorded while a task submitted earlier is still running
C15_Witness ==
    /\ handed # <<>>
    /\ \E i \in Running : i < handed[1]

\* C16: every task of the batch has been submitted before the loop records
\* the first outcome, and none is submitted afterwards: once an outcome has
\* been handed to the loop, the futures are those of all the tasks of the batch.
C16_SubmittedBeforeCollected ==
    (ncollected > 0 \/ results # <<>>) =>
        /\ Len(futures) = Len(Tasks)
        /\ \A i \in 1..Len(futures) : futures[i].task = Tasks[i]

\* the first outcome of a batch of several tasks has been recorded while the pool runs
C16_Witness ==
    /\ ncollected = 1
    /\ Len(futures) >= 2
    /\ pool = "running"
    /\ Running # {}

\* C17: at every moment at most max_workers = min(cpu, total_tasks) tasks
\* are running.
C17_BoundedConcurrency ==
    pool = "running" =>
        /\ max_workers = Min(cpu, total_tasks)
        /\ Cardinality(Running) <= max_workers

\* every worker is busy and a submitted task waits for one of them
C17_Witness ==
    /\ pool = "running"
    /\ Cardinality(Running) = max_workers
    /\ Pending # {}

\* C18: self.results changes only in a step of the driving loop, which
\* inserts the outcome of the one future handed to it; no step of a worker
\* (starting a task, finishing it, dying) changes it.
C18_OnlyDriverWritesResults ==
    [][results' # results =>
          /\ pc = "looping"
          /\ ncollected' = ncollected + 1
          /\ futures' = futures
          /\ Len(results') <= Len(results) + 1]_vars

\* an outcome has been recorded while a worker is running another task
C18_Witness ==
    /\ results # <<>>
    /\ Running # {}
    /\ ~PoolBroken

\* C19: a batch docking run started from the page ends with the combined
\* summary: once the handler has finished on a batch whose run_all returned,
\* the summary has been written, every task having an outcome, and the
\* batch is reported as done.
C19_SummaryWritten ==
    (kind \in DockKinds /\ pc = "returned" /\ page.state # "idle") =>
        /\ page.summary
        /\ page.state = "done"
        /\ ncollected = total_tasks

\* C20: for every finished docking batch the page reports the three counts,
\* and succeeded + failed = total, total being the number of submitted tasks.
C20_CountsAddUp ==
    (kind \in DockKinds /\ pc = "returned" /\ page.state # "idle") =>
        /\ page.metrics # <<>>
        /\ page.metrics[1] = Len(futures)
        /\ page.metrics[2] + page.metrics[3] = page.metrics[1]

\* C21: there is no per-task timeout: while a task hangs the batch call
\* does not return and the hung task keeps its worker, so at most
\* max_workers tasks occupy workers, hung ones included; the other workers
\* go on: eventually every task is hung, or has its outcome recorded, or
\* waits in the queue because every worker is taken by a hung task (with a
\* single worker, no later task ever starts).
C21_HangBlocksOneSlot ==
    /\ [](Hung # {} => pc \notin {"returned", "raised"})
    /\ [](Cardinality(Busy) <= max_workers)
    /\ (pc = "submitting") ~>
          [](\A i \in 1..total_tasks :
                /\ i <= Len(futures)
                /\ \/ i \in Hung
                   \/ i \in Range(handed) /\ HasKey(results, StoredKey(futures[i].task))
                   \/ i \in Pending /\ Cardinality(Hung) = max_workers)

\* one task hangs, and the outcome of another, started after it, is recorded
C21_Witness ==
    /\ Hung # {}
    /\ pc = "looping"
    /\ \E i \in Range(handed) : \E h \in Hung : h < i

\* C22: a failure of a task itself is caught inside the worker and returned
\* as data, so a future handed to the driving loop never raises because of
\* an error of its task: a resolved future holds an exception only when the
\* pool broke.
C22_FailureReturnedAsData ==
    \A i \in 1..Len(futures) :
        futures[i].st = "done" => futures[i].res.exc \in {"none", "BrokenProcessPool"}

\* C23 as stated: the error string stored for a failed docking task is the
\* message of the exception the task raised, unchanged.
C23_MessageVerbatim ==
    kind \in DockKinds =>
        \A j \in 1..Len(results) :
            results[j].val.type = "str" =>
                \E i \in Range(handed) :
                    /\ Failed(i)
                    /\ StoredKey(futures[i].task) = results[j].key
                    /\ results[j].val.text = futures[i].res.msg

\* C23 amended: every error string in the outcome map is "Failed: " followed
\* by the unchanged message of the exception of a failed task with that key.
C23_PrefixedMessage ==
    kind \in DockKinds =>
        \A j \in 1..Len(results) :
            results[j].val.type = "str" =>
                \E i \in Range(handed) :
                    /\ Failed(i)
                    /\ StoredKey(futures[i].task) = results[j].key
                    /\ results[j].val.text = "Failed: " \o futures[i].res.msg

\* the tool of a docking task has failed and its error string is in the map
C23_Witness ==
    /\ kind \in DockKinds
    /\ \E j \in 1..Len(results) :
          results[j].val = [type |-> "str", text |-> "Failed: Error running AutoDock Vina"]

RECURSIVE RecordInOrder(_, _, _)
\* the dict the loop builds when it is handed the futures fut[k], k in order
RecordInOrder(d, fut, order) ==
    IF order = <<>> THEN d
    ELSE RecordInOrder(RecordDocking(d, fut[Head(order)]), fut, Tail(order))

\* C24: the mapping run_all returns, as a set of key/value pairs, does not
\* depend on the order in which the tasks complete: it is the mapping that
\* the same outcomes give when they are recorded in submission order
\* (stated for batches of pairwise different tasks).
C24_OrderIndependent ==
    (kind \in DockKinds /\ pc = "returned" /\ ~PoolBroken /\ Distinct(Tasks)) =>
        Range(results) = Range(RecordInOrder(<<>>, futures, [k \in 1..Len(futures) |-> k]))

\* C25: the outcome of every docking task is recorded under the key
\* (receptor file name, ligand file name, center) of the task as submitted,
\* whether it succeeded or failed: the keys of the map are exactly those
\* triples of the futures handed to the loop.
C25_KeyStable ==
    kind \in DockKinds =>
        Keys(results) =
            {<<PathName(futures[i].task.receptor), PathName(futures[i].task.lig), futures[i].task.center>> :
                i \in Range(handed)}

\* a succeeded and a failed task of one batch have both been recorded
C25_Witness ==
    /\ kind \in DockKinds
    /\ \E j, k \in 1..Len(results) : results[j].val.type = "Path" /\ results[k].val.type = "str"
    /\ ~PoolBroken

\* C26: while a batch runs, every task gets the same share of at least one
\* CPU (cpu // max_workers for Vina and pocket finding, 1 for AutoDock4 and
\* the preparation batches), the running tasks together use at most cpu
\* CPUs, and for Vina and pocket finding the CPUs left over,
\* cpu - max_workers * share, are between 0 and max_workers - 1.
C26_CpuBudget ==
    pool = "running" =>
        /\ cpu_share >= 1
        /\ cpu_share = IF kind \in {"vina", "pocket"} THEN cpu \div max_workers ELSE 1
        /\ \A i \in 1..Len(futures) : futures[i].cpu = cpu_share
        /\ Cardinality(Running) * cpu_share <= cpu
        /\ kind \in {"vina", "pocket"} =>
              /\ cpu - max_workers * cpu_share >= 0
              /\ cpu - max_workers * cpu_share <= max_workers - 1

\* every worker of a Vina batch runs a task and one CPU of the budget is left over
C26_Witness ==
    /\ pool = "running"
    /\ kind = "vina"
    /\ max_workers >= 2
    /\ Cardinality(Running) = max_workers
    /\ cpu - max_workers * cpu_share = 1

\* C27: in a pocket finding or preparation batch, two tasks for different
\* input files never write to the same path under save_to.
C27_FileOutputsDistinct ==
    kind \in FileKinds =>
        \A a, b \in fs :
            (a.by # b.by /\ futures[a.by].task.file # futures[b.by].task.file) => a.path # b.path

\* the programs a call has started
Progs == {started[i].prog : i \in 1..Len(started)}

HasFile(name) == name \in DOMAIN output_dir

\* C28: AD4Docking.run runs AutoGrid, then AutoDock, and stops at the first
\* failure: AutoDock starts only after AutoGrid exited with 0 and left
\* receptor.maps.fld; run returns only if AutoDock exited with 0 and
\* results.dlg exists, and then the directory holds output.pdbqt; otherwise
\* run raises and runs nothing further.
C28_StagesInOrder ==
    /\ "autodock" \in Progs =>
          /\ started[1] = [prog |-> "autogrid", code |-> 0]
          /\ HasFile("receptor.maps.fld")
    /\ stage = "returned" =>
          /\ started = <<[prog |-> "autogrid", code |-> 0], [prog |-> "autodock", code |-> 0]>>
          /\ HasFile("results.dlg")
          /\ HasFile("output.pdbqt")
    /\ \A i \in 1..Len(started) : started[i].code # 0 => (i = Len(started) /\ stage = "raised")
    /\ stage = "raised" => ~HasFile("output.pdbqt")

\* the pairs <<m, e>> of line numbers of a file between which a block lies:
\* a MODEL line, the first ENDMDL line after it, no MODEL line in between
ClosedBlocks(f) ==
    {b \in (1..Len(f)) \X (1..Len(f)) :
        /\ b[1] < b[2]
        /\ f[b[1]].head = "MODEL"
        /\ f[b[2]].head = "ENDMDL"
        /\ \A j \in (b[1] + 1)..(b[2] - 1) : f[j].head \notin {"MODEL", "ENDMDL"}}

InBlock(f, i) == \E b \in ClosedBlocks(f) : b[1] <= i /\ i <= b[2]

\* the lines of the file that lie in a block, in file order
BlockLines(f) == SelectSeq(f, LAMBDA l : InBlock(f, l.no))

\* a line without the mark of how it ends
Text(l) == [head |-> l.head, no |-> l.no]

TextOf(ls) == [i \in 1..Len(ls) |-> Text(ls[i])]

\* C29: the lines written to output.pdbqt are exactly the lines of the
\* MODEL ... ENDMDL blocks of results.dlg, in file order, each once, and
\* nothing is written when no block is closed.
C29_WritesExactlyBlocks ==
    stage = "returned" =>
        LET f == output_dir["results.dlg"]
        IN  IF ClosedBlocks(f) = {} THEN ~HasFile("output.pdbqt")
            ELSE HasFile("output.pdbqt") /\ TextOf(output_dir["output.pdbqt"]) = TextOf(BlockLines(f))

\* C29 as the code has it: the lines written are those of the blocks, in
\* file order and each once, and a newline is written after every block,
\* which makes an empty line after each ENDMDL line that ended with a
\* newline (and ends an ENDMDL line that did not); empty lines occur nowhere
\* else, and no file is written when no block is closed.
C29_BlocksEachThenNewline ==
    stage = "returned" =>
        LET f == output_dir["results.dlg"]
        IN  IF ClosedBlocks(f) = {} THEN ~HasFile("output.pdbqt")
            ELSE /\ HasFile("output.pdbqt")
                 /\ LET out == output_dir["output.pdbqt"]
                    IN  /\ TextOf(SelectSeq(out, LAMBDA l : l # EmptyLine)) = TextOf(BlockLines(f))
                        /\ \A i \in 1..Len(out) : out[i].nl
                        /\ \A i \in 1..Len(out) :
                              out[i].head = "ENDMDL" =>
                                 IF f[out[i].no].nl
                                 THEN i < Len(out) /\ out[i + 1] = EmptyLine
                                 ELSE i = Len(out)
                        /\ \A i \in 1..Len(out) :
                              out[i] = EmptyLine => (i > 1 /\ out[i - 1].head = "ENDMDL")

\* a returned call whose results.dlg holds a block restarted by a second
\* MODEL line and closed, and after it a block that is never closed
C29_Witness ==
    /\ stage = "returned"
    /\ HasFile("output.pdbqt")
    /\ LET f == output_dir["results.dlg"]
       IN  /\ Len(f) = 4
           /\ f[1].head = "MODEL" /\ f[2].head = "MODEL" /\ f[3].head = "ENDMDL" /\ f[4].head = "MODEL"
           /\ Len(output_dir["output.pdbqt"]) = 3

\* the tasks whose worker reported success
PocketSucceeded ==
    {i \in 1..Len(futures) : futures[i].st = "done" /\ futures[i].res.exc = "none"
                                /\ futures[i].res.val.status = "success"}

\* whether the centers of a report can be read: the file is there, its
\* header names the coordinate columns, every cell under them is a number
Parsable(rep) ==
    /\ rep.exists
    /\ rep.padding \in {"", "   "}
    /\ \A j \in 1..Len(rep.rows), c \in CoordColumns : rep.rows[j][c].kind = "num"

\* the centers of the rows of a report, in rank order
ReportCenters(rep) ==
    [j \in 1..Len(rep.rows) |->
        <<rep.rows[j]["center_x"].v, rep.rows[j]["center_y"].v, rep.rows[j]["center_z"].v>>]

\* C30: the mapping BatchPocketFinder.run_all returns has exactly the files
\* whose pocket finding succeeded as keys, each with the non-empty list of
\* the centers of its report in rank order; a file whose report is missing,
\* cannot be parsed or has no row has no entry.
C30_CentersOfReport ==
    (kind = "pocket" /\ pc = "returned") =>
        /\ Keys(results) = {PathStr(futures[i].task.file) : i \in PocketSucceeded}
        /\ \A i \in 1..Len(futures) :
              LET key == PathStr(futures[i].task.file)
              IN  /\ i \in PocketSucceeded =>
                        /\ Parsable(reports[i])
                        /\ DictGet(results, key).centers # <<>>
                        /\ DictGet(results, key).centers = ReportCenters(reports[i])
                  /\ (~Parsable(reports[i]) \/ reports[i].rows = <<>>) => ~HasKey(results, key)

====
